---- MODULE Spec2Model ----
(***************************************************************************)
(* State-machine model of src/app.py: a Streamlit CRM in which every        *)
(* browser session re-runs the script on each interaction.  A script run   *)
(* loads the whole snapshot from crm_data.json (through st.cache_data),     *)
(* the pressed button's handler changes its private copy and save_data      *)
(* writes the whole snapshot back.  Sessions are threads of one server      *)
(* process, so the runs of different sessions interleave between the load   *)
(* and the save.  pc[s] is "idle" between runs, "loaded" inside a run that   *)
(* no other session has interleaved with yet and "preempted" inside a run   *)
(* that another session's step has interleaved with; preempts counts the    *)
(* runs that were interleaved with, and the exploration is bounded to       *)
(* MaxPreempts of them.                                                     *)
(*                                                                          *)
(* uploads is the set of document paths in the uploads directory and fault  *)
(* the failure the environment currently injects into file operations.      *)
(*                                                                          *)
(* Left out of the state: created_at / updated_at stamps, the salt of a     *)
(* password hash and the dashboard image; the search box is left empty.     *)
(* The module level of a script run (load, default admin, save) is one      *)
(* step.                                                                    *)
(***************************************************************************)
EXTENDS Integers, Sequences, FiniteSets, TLC

VARIABLES dataFile, cache, now, pc, db_local, logged_in, session_user, last,
          preempts, uploads, fault

vars == <<dataFile, cache, now, pc, db_local, logged_in, session_user, last,
          preempts, uploads, fault>>

----------------------------------------------------------------------------
(* Bounds and input sets                                                    *)

\* the clock runs over the ticks 0..MaxClock, TicksPerSecond of them to a second
MaxClock == 1
TicksPerSecond == 2

\* at most MaxPreempts script runs are interleaved with another session's steps
MaxPreempts == 1

Sessions == {"s1", "s2"}

DEFAULT_ADMIN == "ASHIK"
DEFAULT_ADMIN_PW == "ASHph7#"

\* what is typed into a username box ("" is the empty box)
AgmUsernameInputs == {"A1"}
AmUsernameInputs == {"M1"}
\* "A1" is also offered to the AGM page: a username can come back in another role
BranchUsernameInputs == {"B1", "A1"}

\* what is typed into a password box
PasswordInputs == {"secret1"}

\* what is typed into "Assign Branches (comma-separated)", already split(",")
BranchListInputs == {<<"North", "">>}

\* what an admin types into "Assign Branch"
BranchTextInputs == {" South"}

\* what an area manager can pick in the "Assign Branch" select box
BranchSelectInputs == {"North"}

\* "Assign Branch" left empty, or filled with blanks
BlankBranchTextInputs == {"", "  "}

\* the ids generate_customer_id can return within the clock's range
CustomerIds == 0..(MaxClock \div TicksPerSecond)

\* the clock's range where two records are to exist side by side
MaxFrameClock == 2
FrameCustomerIds == 0..(MaxFrameClock \div TicksPerSecond)

EmptyFn == [x \in {} |-> x]

----------------------------------------------------------------------------
(* String helpers (Python str methods on the strings the model uses)        *)

\* len(s)
StrLen(s) ==
    CASE s = "" -> 0
      [] s = "abc" -> 3
      [] s = "12345" -> 5
      [] s = "secret1" -> 7
      [] s = DEFAULT_ADMIN_PW -> 7
      [] s = "98765abcde" -> 10
      [] s = "9876543210" -> 10
      [] s = "123456789012" -> 12
      [] s = "1234567890" -> 10
      [] OTHER -> 8

\* s.isdigit()
IsDigit(s) == s \in {"12345", "9876543210", "123456789012", "1234567890"}

\* s.strip()
Strip(s) ==
    CASE s = " South" -> "South"
      [] s = "  " -> ""
      [] OTHER -> s

\* x in lst
InList(x, lst) == \E i \in DOMAIN lst : lst[i] = x

\* [b.strip() for b in toks if b.strip()]
RECURSIVE StripNonEmpty(_)
StripNonEmpty(toks) ==
    IF toks = <<>> THEN <<>>
    ELSE IF Strip(Head(toks)) = "" THEN StripNonEmpty(Tail(toks))
         ELSE <<Strip(Head(toks))>> \o StripNonEmpty(Tail(toks))

\* f with key k set to v (dict assignment)
Put(f, k, v) == [x \in (DOMAIN f) \cup {k} |-> IF x = k THEN v ELSE f[x]]

\* f without key k (del)
Del(f, k) == [x \in (DOMAIN f) \ {k} |-> f[x]]

----------------------------------------------------------------------------
(* Record store: load_data / save_data                                      *)

DEFAULT_TEXT == "Welcome to CRM System. Please login to continue."

DefaultData ==
    [users |-> EmptyFn, customers |-> EmptyFn,
     dashboard |-> [text |-> DEFAULT_TEXT, image_path |-> "None"]]

\* what load_data returns when its body runs to a return statement
ReadFile(file) ==
    IF file.state = "ok" THEN file.data ELSE DefaultData

LOAD_WARNING == "Error loading data file. Starting with fresh data."

\* the body of load_data raises: the file exists and open(DATA_FILE, "r") or
\* the read fails with an error that is not a json.JSONDecodeError
ReadRaises(file) == file.state # "missing" /\ fault = "read_failed"

\* @st.cache_data load_data(): [data, cache] after the call, whether the body
\* showed its st.error and whether the call raised (nothing is cached then)
load_data(file, c) ==
    IF c.valid
    THEN [data |-> c.data, cache |-> c, warned |-> FALSE, raised |-> FALSE]
    ELSE IF ReadRaises(file)
    THEN [data |-> DefaultData, cache |-> c, warned |-> FALSE, raised |-> TRUE]
    ELSE [data |-> ReadFile(file),
          cache |-> [valid |-> TRUE, data |-> ReadFile(file)],
          warned |-> file.state = "corrupt", raised |-> FALSE]

\* the failures the environment can inject: open(DATA_FILE, "w") raises,
\* json.dump raises after the file was truncated, st.cache_data.clear()
\* raises, os.remove of a document raises, reading DATA_FILE raises
SaveFaults == {"open_failed", "write_failed", "clear_failed"}
Faults == SaveFaults \cup {"remove_failed", "read_failed"}

\* how a save_data call can end
SaveOutcomes == IF fault \in SaveFaults THEN {fault} ELSE {"ok"}

\* save_data(data): [file, cache, ok] after the call
save_data(file, c, data, outcome) ==
    CASE outcome = "ok" ->
           [file |-> [state |-> "ok", data |-> data],
            cache |-> [valid |-> FALSE, data |-> DefaultData],
            ok |-> TRUE]
      [] outcome = "clear_failed" ->
           \* lines 57-61: the exception of the clear is swallowed
           [file |-> [state |-> "ok", data |-> data], cache |-> c, ok |-> TRUE]
      [] outcome = "open_failed" ->
           [file |-> file, cache |-> c, ok |-> FALSE]
      [] OTHER ->
           \* the file was opened with "w" and the dump did not complete
           [file |-> [state |-> "corrupt", data |-> DefaultData],
            cache |-> c, ok |-> FALSE]

----------------------------------------------------------------------------
(* Credential helpers                                                       *)

hash_password(pw) == <<"bcrypt", pw>>

\* variant: every password verifies
check_password_Any(pw, hashed) == TRUE

check_password(pw, hashed) == hashed = <<"bcrypt", pw>>

\* int(datetime.now().timestamp()): the whole seconds of the clock reading
generate_customer_id(t) == t \div TicksPerSecond

----------------------------------------------------------------------------
(* Session helpers                                                          *)

None == <<>>

User(s) == session_user[s][1]

\* last is the outcome of the most recent button handler: the session, the
\* button, the record, the message shown, the status the handler read and
\* whether it repeats the session's approval that succeeded just before.  A
\* new script run forgets it, except the session's own successful approval.
NoResult == [sess |-> "-", op |-> "none", cid |-> 0, msg |-> "none",
             from |-> "-", twice |-> FALSE]

Result(s, op, cid, msg, from, twice) ==
    [sess |-> s, op |-> op, cid |-> cid, msg |-> msg, from |-> from,
     twice |-> twice]

ApprovedMsgs == {"approved by Area Manager", "approved by AGM"}

Account(username, pw, role, branches, creator) ==
    [username |-> username, password |-> hash_password(pw), role |-> role,
     assigned_branches |-> branches, created_by |-> creator]

----------------------------------------------------------------------------
(* Initial state: no data file yet, no session has run the script           *)

Init ==
    /\ dataFile = [state |-> "missing", data |-> DefaultData]
    /\ cache = [valid |-> FALSE, data |-> DefaultData]
    /\ now = 0
    /\ pc = [s \in Sessions |-> "idle"]
    /\ db_local = [s \in Sessions |-> DefaultData]
    /\ logged_in = [s \in Sessions |-> FALSE]
    /\ session_user = [s \in Sessions |-> None]
    /\ last = NoResult
    /\ preempts = 0
    /\ uploads = {}
    /\ fault = "none"

----------------------------------------------------------------------------
(* Scheduling of the session threads                                        *)

InRun(s) == pc[s] \in {"loaded", "preempted"}

\* a step of t interleaves with the run of another session
Preempting(t) == \E s \in Sessions \ {t} : pc[s] = "loaded"

\* t takes a step that leaves it at v
Step(t, v) ==
    /\ Preempting(t) => preempts < MaxPreempts
    /\ preempts' = IF Preempting(t) THEN preempts + 1 ELSE preempts
    /\ pc' = [s \in Sessions |->
                IF s = t THEN v
                ELSE IF pc[s] = "loaded" THEN "preempted" ELSE pc[s]]

----------------------------------------------------------------------------
(* How a button handler ends                                                *)

\* "if save_data(db): st.success(...); st.experimental_rerun()"
Commit(s, db2, res) ==
    \E outcome \in SaveOutcomes :
        LET sv == save_data(dataFile, cache, db2, outcome) IN
        /\ dataFile' = sv.file
        /\ cache' = sv.cache
        /\ last' = IF sv.ok THEN res ELSE [res EXCEPT !.msg = "Error saving data"]
        /\ Step(s, "idle")
        /\ db_local' = [db_local EXCEPT ![s] = DefaultData]

\* the handler shows a message (or nothing) and the script run ends
NoCommit(s, res) ==
    /\ last' = res
    /\ Step(s, "idle")
    /\ db_local' = [db_local EXCEPT ![s] = DefaultData]
    /\ UNCHANGED <<dataFile, cache>>

----------------------------------------------------------------------------
(* A script run starts: module level (lines 95-117), then main()            *)

BootstrapAdmin(db) ==
    [db EXCEPT !.users =
        Put(@, DEFAULT_ADMIN,
            Account(DEFAULT_ADMIN, DEFAULT_ADMIN_PW, "admin", <<>>, "system"))]

StartRun(s) ==
    /\ pc[s] = "idle"
    /\ \E outcome \in SaveOutcomes :
        LET l1 == load_data(dataFile, cache)
            sv == IF ~l1.raised /\ DEFAULT_ADMIN \notin DOMAIN l1.data.users
                  THEN save_data(dataFile, l1.cache, BootstrapAdmin(l1.data), outcome)
                  ELSE [file |-> dataFile, cache |-> l1.cache, ok |-> TRUE]
            \* the load of login_page (line 224) or dashboard (line 687)
            l2 == IF l1.raised THEN l1 ELSE load_data(sv.file, sv.cache)
        IN  /\ dataFile' = sv.file
            /\ cache' = l2.cache
            \* login_page only renders its copy; dashboard() hands it to the page
            /\ db_local' = [db_local EXCEPT
                               ![s] = IF logged_in[s] /\ ~l2.raised
                                      THEN l2.data ELSE DefaultData]
            \* an exception that leaves load_data ends the script run
            /\ Step(s, IF l2.raised THEN "idle" ELSE "loaded")
            /\ last' = IF l2.raised
                          THEN Result(s, "load", 0, "exception", "-", FALSE)
                       ELSE IF l1.warned \/ l2.warned
                          THEN Result(s, "load", 0, LOAD_WARNING, "-", FALSE)
                       ELSE IF last.sess = s /\ last.msg \in ApprovedMsgs
                          THEN last
                       ELSE NoResult
    /\ UNCHANGED <<now, logged_in, session_user, uploads, fault>>

\* the run renders its page and no button was pressed
EndRun(s) ==
    /\ InRun(s)
    /\ Step(s, "idle")
    /\ db_local' = [db_local EXCEPT ![s] = DefaultData]
    /\ UNCHANGED <<dataFile, cache, now, logged_in, session_user, last, uploads,
                   fault>>

\* a handler reads the clock in its own step, so a tick inside a run that
\* nothing has interleaved with is the same as a tick before the run
Tick ==
    /\ now < MaxClock
    /\ \A s \in Sessions : pc[s] # "loaded"
    /\ now' = now + 1
    /\ UNCHANGED <<dataFile, cache, pc, db_local, logged_in, session_user, last,
                   preempts, uploads, fault>>

----------------------------------------------------------------------------
(* login_page / logout                                                      *)

Login(s, username, password) ==
    /\ InRun(s)
    /\ ~logged_in[s]
    /\ LET db_now == load_data(dataFile, cache) IN
       /\ cache' = db_now.cache
       /\ IF db_now.raised
          THEN /\ UNCHANGED <<logged_in, session_user>>
               /\ last' = Result(s, "load", 0, "exception", "-", FALSE)
          ELSE IF username \in DOMAIN db_now.data.users
          THEN IF check_password(password, db_now.data.users[username].password)
               THEN /\ logged_in' = [logged_in EXCEPT ![s] = TRUE]
                    /\ session_user' = [session_user EXCEPT
                                          ![s] = <<db_now.data.users[username]>>]
                    /\ last' = Result(s, "login", 0, "Welcome", "-", FALSE)
               ELSE /\ UNCHANGED <<logged_in, session_user>>
                    /\ last' = Result(s, "login", 0, "Invalid password", "-", FALSE)
          ELSE /\ UNCHANGED <<logged_in, session_user>>
               /\ last' = Result(s, "login", 0, "Username not found", "-", FALSE)
    /\ Step(s, "idle")
    /\ db_local' = [db_local EXCEPT ![s] = DefaultData]
    /\ UNCHANGED <<dataFile, now, uploads, fault>>

\* variant: the logout handler leaves the user record in the session
Logout_KeepsUser(s) ==
    /\ InRun(s)
    /\ logged_in[s]
    /\ logged_in' = [logged_in EXCEPT ![s] = FALSE]
    /\ last' = Result(s, "logout", 0, "none", "-", FALSE)
    /\ Step(s, "idle")
    /\ db_local' = [db_local EXCEPT ![s] = DefaultData]
    /\ UNCHANGED <<dataFile, cache, now, session_user, uploads, fault>>

Logout(s) ==
    /\ InRun(s)
    /\ logged_in[s]
    /\ logged_in' = [logged_in EXCEPT ![s] = FALSE]
    /\ session_user' = [session_user EXCEPT ![s] = None]
    /\ last' = Result(s, "logout", 0, "none", "-", FALSE)
    /\ Step(s, "idle")
    /\ db_local' = [db_local EXCEPT ![s] = DefaultData]
    /\ UNCHANGED <<dataFile, cache, now, uploads, fault>>

----------------------------------------------------------------------------
(* dashboard(): the menu of a role and the router                           *)

Menu(user) ==
    CASE user.role = "admin" ->
           {"Create AGM", "Create Area Manager", "Create Branch User",
            "View Records", "Settings", "Reports"}
      [] user.role = "AGM" -> {"Create Area Manager", "View Records", "Reports"}
      [] user.role = "area_manager" ->
           {"Create Branch User", "View Records", "Reports"}
      [] user.role = "branch" -> {"Submit Customer", "View Records", "Reports"}
      [] OTHER -> {"View Records", "Reports"}

\* the page the router calls for a menu choice, "info" for the else branch
Route(user, choice) ==
    CASE choice \notin Menu(user) -> "info"
      [] choice = "Reports" -> "reports_page"
      [] choice = "Submit Customer" -> "submit_customer_page"
      [] choice = "View Records" -> "view_records_page"
      [] choice = "Settings" /\ user.role = "admin" -> "settings_page"
      [] choice = "Create AGM" /\ user.role = "admin" -> "create_agm_page"
      [] choice = "Create Area Manager" /\ user.role \in {"admin", "AGM"} ->
           "create_area_manager_page"
      [] choice = "Create Branch User" /\ user.role \in {"admin", "area_manager"} ->
           "create_branch_user_page"
      [] OTHER -> "info"

\* a logged-in session whose run has loaded the snapshot
InDashboard(s) == InRun(s) /\ logged_in[s] /\ session_user[s] # None

----------------------------------------------------------------------------
(* Account pages                                                            *)

\* the three checks shared by the create pages; "" when they pass
AccountInputError(db, username, password) ==
    IF username = "" THEN "Username is required"
    ELSE IF username \in DOMAIN db.users THEN "Username already exists"
    ELSE IF StrLen(password) < 6 THEN "Password must be at least 6 characters"
    ELSE ""

CreateAGM(s, new_username, new_password) ==
    /\ InDashboard(s)
    /\ LET user == User(s)
           db == db_local[s]
           err == AccountInputError(db, new_username, new_password)
       IN  IF Route(user, "Create AGM") # "create_agm_page"
           THEN NoCommit(s, Result(s, "create_agm", 0, "none", "-", FALSE))
           ELSE IF err # ""
           THEN NoCommit(s, Result(s, "create_agm", 0, err, "-", FALSE))
           ELSE Commit(s,
                  [db EXCEPT !.users =
                     Put(@, new_username,
                         Account(new_username, new_password, "AGM", <<>>,
                                 user.username))],
                  Result(s, "create_agm", 0, "created", "-", FALSE))
    /\ UNCHANGED <<now, logged_in, session_user, uploads, fault>>

CreateAreaManager(s, am_username, am_password, am_branches) ==
    /\ InDashboard(s)
    /\ LET user == User(s)
           db == db_local[s]
           err == AccountInputError(db, am_username, am_password)
       IN  IF Route(user, "Create Area Manager") # "create_area_manager_page"
           THEN NoCommit(s, Result(s, "create_am", 0, "none", "-", FALSE))
           ELSE IF err # ""
           THEN NoCommit(s, Result(s, "create_am", 0, err, "-", FALSE))
           ELSE Commit(s,
                  [db EXCEPT !.users =
                     Put(@, am_username,
                         Account(am_username, am_password, "area_manager",
                                 StripNonEmpty(am_branches), user.username))],
                  Result(s, "create_am", 0, "created", "-", FALSE))
    /\ UNCHANGED <<now, logged_in, session_user, uploads, fault>>

\* what the "Assign Branch" widget can hold for this user
BranchChoices(user) ==
    IF user.role = "area_manager"
    THEN {""} \cup {user.assigned_branches[i] : i \in DOMAIN user.assigned_branches}
    ELSE BranchTextInputs \cup BlankBranchTextInputs

CreateBranchUser(s, bu_username, bu_password, bu_branch) ==
    /\ InDashboard(s)
    /\ bu_branch \in BranchChoices(User(s))
    /\ LET user == User(s)
           db == db_local[s]
           err == AccountInputError(db, bu_username, bu_password)
       IN  IF Route(user, "Create Branch User") # "create_branch_user_page"
           THEN NoCommit(s, Result(s, "create_branch", 0, "none", "-", FALSE))
           ELSE IF err # ""
           THEN NoCommit(s, Result(s, "create_branch", 0, err, "-", FALSE))
           ELSE IF bu_branch = ""
           THEN NoCommit(s, Result(s, "create_branch", 0,
                                   "Branch assignment is required", "-", FALSE))
           ELSE Commit(s,
                  [db EXCEPT !.users =
                     Put(@, bu_username,
                         Account(bu_username, bu_password, "branch",
                                 <<Strip(bu_branch)>>, user.username))],
                  Result(s, "create_branch", 0, "created", "-", FALSE))
    /\ UNCHANGED <<now, logged_in, session_user, uploads, fault>>

----------------------------------------------------------------------------
(* submit_customer_page                                                     *)

NameInputs == {"Jane Doe"}
PhoneInputs == {"9876543210"}
AadhaarInputs == {"123456789012"}
EmailInputs == {""}
\* the uploaded file's name, "" when nothing was uploaded
FileInputs == {"doc.pdf"}

UPLOAD_DIR == "uploads"

\* variant: the length of the phone number is not checked
SubmitInputError_NoPhoneLength(name, phone, aadhaar, file) ==
    IF name = "" \/ phone = "" \/ aadhaar = "" \/ file = ""
    THEN "All required fields must be provided"
    ELSE IF ~IsDigit(phone)
    THEN "Phone number must be exactly 10 digits"
    ELSE IF ~IsDigit(aadhaar) \/ StrLen(aadhaar) # 12
    THEN "Aadhaar number must be exactly 12 digits"
    ELSE ""

\* the if/elif chain of lines 501-506; "" when the input passes
SubmitInputError(name, phone, aadhaar, file) ==
    IF name = "" \/ phone = "" \/ aadhaar = "" \/ file = ""
    THEN "All required fields must be provided"
    ELSE IF ~IsDigit(phone) \/ StrLen(phone) # 10
    THEN "Phone number must be exactly 10 digits"
    ELSE IF ~IsDigit(aadhaar) \/ StrLen(aadhaar) # 12
    THEN "Aadhaar number must be exactly 12 digits"
    ELSE ""

\* user["assigned_branches"][0] if user.get("assigned_branches") else "Unassigned"
SubmitBranch(user) ==
    IF user.assigned_branches # <<>> THEN user.assigned_branches[1] ELSE "Unassigned"

\* os.path.join(UPLOAD_DIR, f"{cid}_{file.name}")
DocumentPath(cid, file) == <<UPLOAD_DIR, cid, file>>

NewCustomer(cid, user, name, phone, aadhaar, email, file) ==
    [customer_id |-> cid, name |-> name, phone |-> phone,
     aadhaar_number |-> aadhaar, email |-> email,
     branch |-> SubmitBranch(user), submitted_by |-> user.username,
     status |-> "submitted", document_path |-> DocumentPath(cid, file)]

SubmitCustomer(s, name, phone, aadhaar, email, file) ==
    /\ InDashboard(s)
    /\ LET user == User(s)
           db == db_local[s]
           err == SubmitInputError(name, phone, aadhaar, file)
           cid == generate_customer_id(now)
       IN  IF Route(user, "Submit Customer") # "submit_customer_page"
           THEN /\ NoCommit(s, Result(s, "submit", 0, "none", "-", FALSE))
                /\ UNCHANGED uploads
           ELSE IF err # ""
           THEN /\ NoCommit(s, Result(s, "submit", 0, err, "-", FALSE))
                /\ UNCHANGED uploads
           ELSE \* lines 510-512: the document is written before the record
                /\ uploads' = uploads \cup {DocumentPath(cid, file)}
                /\ Commit(s,
                     [db EXCEPT !.customers =
                        Put(@, cid,
                            NewCustomer(cid, user, name, phone, aadhaar, email,
                                        file))],
                     Result(s, "submit", cid, "submitted", "-", FALSE))
    /\ UNCHANGED <<now, logged_in, session_user, fault>>

----------------------------------------------------------------------------
(* view_records_page                                                        *)

\* list(db["customers"].values()): the dict keeps insertion order, and ids
\* are clock readings, so this is ascending id order
RECURSIVE CustomersFrom(_, _)
CustomersFrom(db, k) ==
    IF k \notin CustomerIds \cup FrameCustomerIds THEN <<>>
    ELSE IF k \in DOMAIN db.customers
         THEN <<db.customers[k]>> \o CustomersFrom(db, k + 1)
         ELSE CustomersFrom(db, k + 1)

\* variant: an area manager is shown every branch's records
RoleFilter_AllBranches(user, c) ==
    IF user.role = "branch" THEN c.submitted_by = user.username
    ELSE TRUE

\* lines 537-545 with an empty search box
RoleFilter(user, c) ==
    IF user.role = "branch" THEN c.submitted_by = user.username
    ELSE IF user.role = "area_manager" THEN InList(c.branch, user.assigned_branches)
    ELSE TRUE

ListCustomers(user, db) ==
    LET Keep(c) == RoleFilter(user, c) IN SelectSeq(CustomersFrom(db, 0), Keep)

\* the ids of the records the page renders
Rendered(user, db) ==
    {c.customer_id : c \in {ListCustomers(user, db)[i] :
                               i \in DOMAIN ListCustomers(user, db)}}

\* line 589: the "Approve as Area Manager" button is rendered
AreaManagerButton(user, c) ==
    /\ c.status = "submitted"
    /\ user.role = "area_manager"
    /\ InList(c.branch, user.assigned_branches)

\* variant: the AGM button does not look at the role
AgmButton_AnyRole(user, c) ==
    /\ c.status = "approved_by_area_manager"

\* line 601: the "Approve as AGM" button is rendered
AgmButton(user, c) ==
    /\ c.status = "approved_by_area_manager"
    /\ user.role = "AGM"

\* variant: the delete button is rendered for every role
DeleteButton_AnyRole(user, c) == TRUE

\* line 614: the "Delete" button is rendered
DeleteButton(user, c) == user.role = "admin"

\* variant: the handler keeps only the record it approved
SetStatus_OnlyTarget(db, cid, status) ==
    [db EXCEPT !.customers = (cid :> [@[cid] EXCEPT !.status = status])]

\* lines 594-596 and 605-607
SetStatus(db, cid, status) ==
    [db EXCEPT !.customers = Put(@, cid, [@[cid] EXCEPT !.status = status])]

\* the session presses the approve button of record cid, if there is one
Approve(s, cid) ==
    /\ InDashboard(s)
    /\ LET user == User(s)
           db == db_local[s]
           shown == cid \in Rendered(user, db)
           from == IF cid \in DOMAIN db.customers THEN db.customers[cid].status ELSE "-"
           twice == /\ last.op = "approve" /\ last.sess = s /\ last.cid = cid
                    /\ last.msg \in ApprovedMsgs
       IN  IF shown /\ AreaManagerButton(user, db.customers[cid])
           THEN Commit(s, SetStatus(db, cid, "approved_by_area_manager"),
                       Result(s, "approve", cid, "approved by Area Manager", from, twice))
           ELSE IF shown /\ AgmButton(user, db.customers[cid])
           THEN Commit(s, SetStatus(db, cid, "approved_by_agm"),
                       Result(s, "approve", cid, "approved by AGM", from, twice))
           ELSE NoCommit(s, Result(s, "approve", cid, "none", from, twice))
    /\ UNCHANGED <<now, logged_in, session_user, uploads, fault>>

\* the session presses the delete button of record cid, if there is one
Delete(s, cid) ==
    /\ InDashboard(s)
    /\ LET user == User(s)
           db == db_local[s]
           shown == cid \in Rendered(user, db)
       IN  IF ~(shown /\ DeleteButton(user, db.customers[cid]))
           THEN /\ NoCommit(s, Result(s, "delete", cid, "none", "-", FALSE))
                /\ UNCHANGED uploads
           ELSE IF db.customers[cid].document_path \in uploads
                   /\ fault = "remove_failed"
           THEN \* os.remove raises: the except branch of line 625
                /\ NoCommit(s, Result(s, "delete", cid, "Error deleting", "-", FALSE))
                /\ UNCHANGED uploads
           ELSE /\ uploads' = uploads \ {db.customers[cid].document_path}
                /\ Commit(s, [db EXCEPT !.customers = Del(@, cid)],
                          Result(s, "delete", cid, "deleted", "-", FALSE))
    /\ UNCHANGED <<now, logged_in, session_user, fault>>

----------------------------------------------------------------------------
(* settings_page: "Update Dashboard" with no image uploaded                 *)

\* the text area as it comes up: pressing the button saves it unchanged
DashboardTextInputs == {DEFAULT_TEXT}

UpdateDashboard(s, dashboard_text) ==
    /\ InDashboard(s)
    /\ LET user == User(s)
           db == db_local[s]
       IN  IF Route(user, "Settings") # "settings_page"
           THEN NoCommit(s, Result(s, "dashboard", 0, "none", "-", FALSE))
           ELSE Commit(s, [db EXCEPT !.dashboard.text = dashboard_text],
                       Result(s, "dashboard", 0, "updated", "-", FALSE))
    /\ UNCHANGED <<now, logged_in, session_user, uploads, fault>>

----------------------------------------------------------------------------
(* Specification                                                            *)

LoginInputs ==
    {<<DEFAULT_ADMIN, DEFAULT_ADMIN_PW>>} \cup
    {<<u, p>> : u \in AgmUsernameInputs \cup AmUsernameInputs \cup BranchUsernameInputs,
                p \in PasswordInputs}

Next ==
    \/ \E s \in Sessions : StartRun(s)
    \/ \E s \in Sessions : EndRun(s)
    \/ Tick
    \/ \E s \in Sessions, c \in LoginInputs : Login(s, c[1], c[2])
    \/ \E s \in Sessions : Logout(s)
    \/ \E s \in Sessions, u \in AgmUsernameInputs, p \in PasswordInputs :
          CreateAGM(s, u, p)
    \/ \E s \in Sessions, u \in AmUsernameInputs, p \in PasswordInputs,
          b \in BranchListInputs : CreateAreaManager(s, u, p, b)
    \/ \E s \in Sessions, u \in BranchUsernameInputs, p \in PasswordInputs,
          b \in BranchTextInputs \cup BranchSelectInputs : CreateBranchUser(s, u, p, b)
    \/ \E s \in Sessions, n \in NameInputs, ph \in PhoneInputs, a \in AadhaarInputs,
          e \in EmailInputs, f \in FileInputs : SubmitCustomer(s, n, ph, a, e, f)
    \/ \E s \in Sessions, cid \in CustomerIds : Approve(s, cid)
    \/ \E s \in Sessions, cid \in CustomerIds : Delete(s, cid)
    \/ \E s \in Sessions, t \in DashboardTextInputs : UpdateDashboard(s, t)

Spec == Init /\ [][Next]_vars

----------------------------------------------------------------------------
(* What the claims are stated over                                          *)

\* the snapshot crm_data.json holds
Persisted == ReadFile(dataFile)

Statuses == <<"submitted", "approved_by_area_manager", "approved_by_agm">>

Rank(status) == CHOOSE i \in DOMAIN Statuses : Statuses[i] = status

\* session s ends its script run in this step
Acts(s) == InRun(s) /\ pc'[s] = "idle"

\* this step is a submit that stored a new record under id c
Resubmitted(c) ==
    /\ last'.op = "submit" /\ last'.msg = "submitted" /\ last'.cid = c
    /\ \E s \in Sessions : Acts(s) /\ last'.sess = s

\* C1: the persisted status of a record is one of the three pipeline values
\* and, between two successive persisted states that both hold the record, it
\* never moves backwards (a submit that stores a new record under the id is
\* not counted as a move of the old record).
C1_StatusNeverRegresses ==
    [][\A c \in DOMAIN Persisted.customers :
          /\ InList(Persisted.customers[c].status, Statuses)
          /\ (c \in DOMAIN Persisted'.customers /\ ~Resubmitted(c))
               => Rank(Persisted'.customers[c].status)
                    >= Rank(Persisted.customers[c].status)]_vars

\* C2: a record enters the store as submitted, and a step changes the
\* persisted status of a record only from submitted to approved_by_area_manager
\* or from approved_by_area_manager to approved_by_agm.
C2_NoStageSkipped ==
    [][\A c \in DOMAIN Persisted'.customers :
          IF c \notin DOMAIN Persisted.customers \/ Resubmitted(c)
          THEN Persisted'.customers[c].status = "submitted"
          ELSE \/ Persisted'.customers[c].status = Persisted.customers[c].status
               \/ /\ Persisted.customers[c].status = "submitted"
                  /\ Persisted'.customers[c].status = "approved_by_area_manager"
               \/ /\ Persisted.customers[c].status = "approved_by_area_manager"
                  /\ Persisted'.customers[c].status = "approved_by_agm"]_vars

\* C3: when a step changes the persisted status of a record, the session that
\* acts is eligible for the record's stage: an area_manager assigned to the
\* record's branch for submitted, an AGM for approved_by_area_manager.
C3_OnlyEligibleChangesStatus ==
    [][\A c \in DOMAIN Persisted.customers :
          (/\ c \in DOMAIN Persisted'.customers
           /\ ~Resubmitted(c)
           /\ Persisted'.customers[c].status # Persisted.customers[c].status)
          => \E s \in Sessions :
               /\ Acts(s)
               /\ session_user[s] # None
               /\ \/ /\ Persisted.customers[c].status = "submitted"
                     /\ User(s).role = "area_manager"
                     /\ InList(Persisted.customers[c].branch, User(s).assigned_branches)
                  \/ /\ Persisted.customers[c].status = "approved_by_area_manager"
                     /\ User(s).role = "AGM"]_vars

\* C4: when the persisted status of a record is approved_by_agm, pressing
\* approve on it leaves crm_data.json as it was and does not report an
\* approval (the program has no error kinds; "not a success" is the nearest
\* outcome to AlreadyFinal that it can show).
C4_FinalApproveChangesNothing ==
    [][\A s \in Sessions, cid \in CustomerIds :
          (/\ cid \in DOMAIN Persisted.customers
           /\ Persisted.customers[cid].status = "approved_by_agm"
           /\ Approve(s, cid))
          => /\ dataFile' = dataFile
             /\ last'.msg \notin ApprovedMsgs]_vars

\* the session presses approve on cid again, right after its approval of cid
\* succeeded, with no step of any session in between
SecondApprove(s, cid) ==
    /\ last.op = "approve" /\ last.sess = s /\ last.cid = cid
    /\ last.msg \in ApprovedMsgs
    /\ Approve(s, cid)

Targets(c) == last'.cid = c /\ last'.op \in {"submit", "approve", "delete"}

\* C6: no update is lost: a step keeps every persisted account as it is, and
\* every persisted record as it is except the one its handler is about (the
\* program has no operation that removes or rewrites an account).
C6_NoLostUpdate ==
    [][/\ \A u \in DOMAIN Persisted.users :
             /\ u \in DOMAIN Persisted'.users
             /\ Persisted'.users[u] = Persisted.users[u]
       /\ \A c \in DOMAIN Persisted.customers :
             \/ Targets(c)
             \/ /\ c \in DOMAIN Persisted'.customers
                /\ Persisted'.customers[c] = Persisted.customers[c]]_vars

\* C7: when a session's approval of a record has just succeeded from some
\* status, the approval another session asks for from its own read of the
\* record in that same status does not succeed as well.
C7_OneApprovalPerStage ==
    [][\A s2 \in Sessions, c \in CustomerIds :
          (/\ last.op = "approve" /\ last.msg \in ApprovedMsgs
           /\ last.cid = c /\ last.sess # s2
           /\ InRun(s2)
           /\ c \in DOMAIN db_local[s2].customers
           /\ db_local[s2].customers[c].status = last.from
           /\ Approve(s2, c))
          => last'.msg \notin ApprovedMsgs]_vars

\* the records of snapshot db in the role scope of account A
RoleScope(A, db) ==
    {db.customers[c] : c \in
       {k \in DOMAIN db.customers :
          CASE A.role = "branch" -> db.customers[k].submitted_by = A.username
            [] A.role = "area_manager" ->
                 \E i \in DOMAIN A.assigned_branches :
                    A.assigned_branches[i] = db.customers[k].branch
            [] OTHER -> TRUE}}

\* the snapshots in the state: the file's and each running dashboard's
Snapshots == {Persisted} \cup {db_local[s] : s \in {t \in Sessions : InDashboard(t)}}

\* the accounts in the state: the stored ones and the sessions' own
Accounts ==
    UNION {{db.users[u] : u \in DOMAIN db.users} : db \in Snapshots}
      \cup {User(s) : s \in {t \in Sessions : session_user[t] # None}}

\* C8: for every account and every snapshot, the list the records page builds
\* with an empty search box holds exactly the records in the account's role
\* scope, each once.
C8_ListIsRoleScope ==
    \A A \in Accounts, db \in Snapshots :
        LET L == ListCustomers(A, db) IN
        /\ {L[i] : i \in DOMAIN L} = RoleScope(A, db)
        /\ Len(L) = Cardinality(RoleScope(A, db))

\* a running dashboard of an area manager whose snapshot holds a record, of a
\* branch that is not theirs: the list leaves it out
C8_ScopeExcludesRecord ==
    \E s \in Sessions :
        /\ InDashboard(s)
        /\ User(s).role = "area_manager"
        /\ db_local[s].customers # EmptyFn
        /\ ListCustomers(User(s), db_local[s]) = <<>>

PermissionMatrix ==
    {<<"admin", "AGM">>, <<"admin", "area_manager">>, <<"admin", "branch">>,
     <<"AGM", "area_manager">>, <<"area_manager", "branch">>}

\* this step stores an account that was not stored before
AccountCreated == DOMAIN Persisted'.users \ DOMAIN Persisted.users # {}

\* C9: every persisted account other than the bootstrap admin whose creator
\* is a persisted account has (creator's role, own role) in the permission
\* matrix, with the branch of an area manager's branch user among the
\* creator's branches; and a step of a branch-role session stores no account.
C9_CreatorMatrix ==
    /\ [](\A u \in DOMAIN Persisted.users \ {DEFAULT_ADMIN} :
            LET a == Persisted.users[u] IN
            a.created_by \in DOMAIN Persisted.users
            => LET cr == Persisted.users[a.created_by] IN
               /\ <<cr.role, a.role>> \in PermissionMatrix
               /\ (cr.role = "area_manager" /\ a.role = "branch")
                    => \A i \in DOMAIN a.assigned_branches :
                          InList(a.assigned_branches[i], cr.assigned_branches))
    /\ [][\A s \in Sessions :
            (Acts(s) /\ session_user[s] # None /\ User(s).role = "branch")
            => ~AccountCreated]_vars

\* C10: every persisted record's submitted_by is the username of a persisted
\* account of role branch, and a submit by a session of another role stores
\* no record.
C10_OnlyBranchSubmits ==
    /\ [](\A c \in DOMAIN Persisted.customers :
            /\ Persisted.customers[c].submitted_by \in DOMAIN Persisted.users
            /\ Persisted.users[Persisted.customers[c].submitted_by].role = "branch")
    /\ [][\A s \in Sessions :
            (/\ InDashboard(s) /\ User(s).role # "branch"
             /\ \E n \in NameInputs, ph \in PhoneInputs, a \in AadhaarInputs,
                   e \in EmailInputs, f \in FileInputs :
                   SubmitCustomer(s, n, ph, a, e, f))
            => dataFile' = dataFile]_vars

\* session s presses Submit Customer in this step and the record is saved
SubmitSucceeds(s) ==
    /\ \E n \in NameInputs, ph \in PhoneInputs, a \in AadhaarInputs,
          e \in EmailInputs, f \in FileInputs : SubmitCustomer(s, n, ph, a, e, f)
    /\ last'.msg = "submitted"

\* C11: a successful submit stores its record under an id that the snapshot
\* did not hold, and the store has exactly one record more afterwards.
C11_SubmitNeverReplaces ==
    [][\A s \in Sessions :
          SubmitSucceeds(s)
          => /\ last'.cid \notin DOMAIN db_local[s].customers
             /\ Cardinality(DOMAIN Persisted'.customers)
                  = Cardinality(DOMAIN Persisted.customers) + 1]_vars

----------------------------------------------------------------------------
(* The submit form with everything a user can put into it                   *)

\* <<name, phone, aadhaar, email, file name>>: a good form, then forms with
\* one or two things wrong
SubmitForms ==
    {<<"Jane Doe", "9876543210", "123456789012", "", "doc.pdf">>,
     <<"Jane Doe", "9876543210", "123456789012", "jane@example.com", "doc.pdf">>,
     <<"Jane Doe", "9876543210", "123456789012", "not-an-email", "doc.pdf">>,
     <<"", "9876543210", "123456789012", "", "doc.pdf">>,
     <<"Jane Doe", "", "123456789012", "", "doc.pdf">>,
     <<"Jane Doe", "9876543210", "", "", "doc.pdf">>,
     <<"Jane Doe", "9876543210", "123456789012", "", "">>,
     <<"Jane Doe", "12345", "123456789012", "", "doc.pdf">>,
     <<"Jane Doe", "98765abcde", "123456789012", "", "doc.pdf">>,
     <<"Jane Doe", "9876543210", "1234567890", "", "doc.pdf">>,
     <<"", "12345", "123456789012", "not-an-email", "doc.pdf">>,
     <<"Jane Doe", "12345", "1234567890", "", "doc.pdf">>}

SubmitNext ==
    \/ \E s \in Sessions : StartRun(s)
    \/ \E s \in Sessions : EndRun(s)
    \/ \E s \in Sessions, c \in LoginInputs : Login(s, c[1], c[2])
    \/ \E s \in Sessions : Logout(s)
    \/ \E s \in Sessions, u \in BranchUsernameInputs, p \in PasswordInputs,
          b \in BranchTextInputs : CreateBranchUser(s, u, p, b)
    \/ \E s \in Sessions, form \in SubmitForms :
          SubmitCustomer(s, form[1], form[2], form[3], form[4], form[5])

SubmitSpec == Init /\ [][SubmitNext]_vars

\* the inputs that are exactly ten, and exactly twelve, decimal digits
TenDigits == {"9876543210", "1234567890"}
TwelveDigits == {"123456789012"}

\* the error kind the specification gives a submit, "none" when it is accepted
SubmitErrorKind(name, phone, aadhaar, file) ==
    CASE name = "" \/ phone = "" \/ aadhaar = "" \/ file = "" -> "MissingField"
      [] name # "" /\ phone # "" /\ aadhaar # "" /\ file # ""
         /\ phone \notin TenDigits -> "InvalidPhone"
      [] name # "" /\ phone # "" /\ aadhaar # "" /\ file # ""
         /\ phone \in TenDigits /\ aadhaar \notin TwelveDigits -> "InvalidAadhaar"
      [] OTHER -> "none"

\* the message the page shows for an error kind
KindOfMessage(msg) ==
    CASE msg = "All required fields must be provided" -> "MissingField"
      [] msg = "Phone number must be exactly 10 digits" -> "InvalidPhone"
      [] msg = "Aadhaar number must be exactly 12 digits" -> "InvalidAadhaar"
      [] OTHER -> "none"

\* C12: every persisted record has a non-empty name, a phone of exactly ten
\* digits and an aadhaar_number of exactly twelve digits; and a submit of a
\* branch session whose input is missing a field, has a bad phone or a bad
\* aadhaar shows that error (in that order of precedence) and leaves
\* crm_data.json as it was.
C12_SubmitValidates ==
    /\ [](\A c \in DOMAIN Persisted.customers :
            /\ Persisted.customers[c].name # ""
            /\ Persisted.customers[c].phone \in TenDigits
            /\ Persisted.customers[c].aadhaar_number \in TwelveDigits)
    /\ [][\A s \in Sessions, form \in SubmitForms :
            (/\ InDashboard(s) /\ User(s).role = "branch"
             /\ last'.op = "submit"
             /\ SubmitCustomer(s, form[1], form[2], form[3], form[4], form[5]))
            => LET kind == SubmitErrorKind(form[1], form[2], form[3], form[5]) IN
               /\ KindOfMessage(last'.msg) = kind
               /\ kind # "none" => (dataFile' = dataFile /\ uploads' = uploads)]_vars

\* a submit was refused for its phone number while the store holds a record
C12_BadPhoneRefused ==
    /\ last.op = "submit"
    /\ last.msg = "Phone number must be exactly 10 digits"
    /\ Persisted.customers # EmptyFn

\* the emails with a plausible delimiter
PlausibleEmails == {"jane@example.com"}

\* C13: every persisted record's email is empty or has a plausible
\* delimiter, and a submit with any other email stores no record.
C13_EmailValidated ==
    /\ [](\A c \in DOMAIN Persisted.customers :
            \/ Persisted.customers[c].email = ""
            \/ Persisted.customers[c].email \in PlausibleEmails)
    /\ [][\A s \in Sessions, form \in SubmitForms :
            (/\ form[4] # "" /\ form[4] \notin PlausibleEmails
             /\ InDashboard(s)
             /\ last'.op = "submit"
             /\ SubmitCustomer(s, form[1], form[2], form[3], form[4], form[5]))
            => dataFile' = dataFile]_vars

----------------------------------------------------------------------------
(* Accounts                                                                 *)

\* session s presses the create button of one of the account pages for
\* username u in this step
CreatePressed(s, u) ==
    /\ last'.sess = s
    /\ last'.op \in {"create_agm", "create_am", "create_branch"}
    /\ last'.msg # "none"
    /\ \/ \E p \in PasswordInputs : CreateAGM(s, u, p)
       \/ \E p \in PasswordInputs, b \in BranchListInputs :
             CreateAreaManager(s, u, p, b)
       \/ \E p \in PasswordInputs, b \in BranchTextInputs \cup BranchSelectInputs :
             CreateBranchUser(s, u, p, b)

\* C14: every persisted account is in the next persisted snapshot with the
\* same password hash, role, assigned_branches and created_by; and creating
\* an account under a username the store holds is refused as a duplicate and
\* leaves crm_data.json as it was.
C14_AccountsImmutable ==
    [][/\ \A u \in DOMAIN Persisted.users :
             /\ u \in DOMAIN Persisted'.users
             /\ Persisted'.users[u] = Persisted.users[u]
       /\ \A s \in Sessions, u \in DOMAIN Persisted.users :
             CreatePressed(s, u)
             => /\ last'.msg = "Username already exists"
                /\ dataFile' = dataFile]_vars

----------------------------------------------------------------------------
(* The login form and the account pages with everything a user can put in   *)

FormPasswordInputs == {"secret1", "abc"}
\* "North," and the empty box, after split(",")
FormBranchListInputs == {<<"North", "">>, <<"">>}
FormBranchInputs == BranchTextInputs \cup BlankBranchTextInputs \cup BranchSelectInputs

FormLoginInputs ==
    {<<DEFAULT_ADMIN, DEFAULT_ADMIN_PW>>, <<DEFAULT_ADMIN, "secret1">>,
     <<"ghost", "secret1">>, <<"A1", "secret1">>, <<"M1", "secret1">>,
     <<"B1", "secret1">>, <<"M1", "abc">>}

AccountsNext ==
    \/ \E s \in Sessions : StartRun(s)
    \/ \E s \in Sessions : EndRun(s)
    \/ \E s \in Sessions, c \in FormLoginInputs : Login(s, c[1], c[2])
    \/ \E s \in Sessions : Logout(s)
    \/ \E s \in Sessions, u \in {"", "A1"}, p \in FormPasswordInputs :
          CreateAGM(s, u, p)
    \/ \E s \in Sessions, u \in {"", "M1"}, p \in FormPasswordInputs,
          b \in FormBranchListInputs : CreateAreaManager(s, u, p, b)
    \/ \E s \in Sessions, u \in {"", "B1"}, p \in FormPasswordInputs,
          b \in FormBranchInputs : CreateBranchUser(s, u, p, b)

AccountsSpec == Init /\ [][AccountsNext]_vars

\* C15: a persisted branch account has exactly one assigned branch, with a
\* non-empty name; a persisted area_manager has at least one; AGM and admin
\* accounts have none; and pressing create with a branch input that would
\* break this leaves crm_data.json as it was.
C15_BranchRequirement ==
    /\ [](\A u \in DOMAIN Persisted.users :
            LET a == Persisted.users[u] IN
            /\ a.role = "branch"
                 => (Len(a.assigned_branches) = 1 /\ a.assigned_branches[1] # "")
            /\ a.role = "area_manager" => Len(a.assigned_branches) >= 1
            /\ a.role \in {"AGM", "admin"} => a.assigned_branches = <<>>)
    /\ [][\A s \in Sessions :
            (/\ InDashboard(s) /\ last'.sess = s
             /\ \/ /\ last'.op = "create_am"
                   /\ \E p \in FormPasswordInputs :
                         CreateAreaManager(s, "M1", p, <<"">>)
                \/ /\ last'.op = "create_branch"
                   /\ \E p \in FormPasswordInputs :
                         CreateBranchUser(s, "B1", p, "  "))
            => dataFile' = dataFile]_vars

\* C16: pressing Sign In logs the session in exactly when the username is in
\* the store and the password verifies against its stored hash, and then the
\* session's user is that stored account; for an absent username it shows
\* "Username not found", for a failed password check "Invalid password", and
\* in both cases the session stays logged out with no user.
C16_Authenticate ==
    [][\A s \in Sessions, c \in FormLoginInputs :
          (last'.op = "login" /\ last'.sess = s /\ Login(s, c[1], c[2]))
          => LET known == c[1] \in DOMAIN Persisted.users
                 verified == known
                             /\ Persisted.users[c[1]].password = hash_password(c[2])
             IN  /\ verified => /\ logged_in'[s]
                                /\ session_user'[s] = <<Persisted.users[c[1]]>>
                 /\ ~known => last'.msg = "Username not found"
                 /\ (known /\ ~verified) => last'.msg = "Invalid password"
                 /\ ~verified => (~logged_in'[s] /\ session_user'[s] = None)]_vars

\* a login to a stored account was refused for its password
C16_LoginRefused ==
    /\ last.op = "login" /\ last.msg = "Invalid password"
    /\ ~logged_in[last.sess]
    /\ Cardinality(DOMAIN Persisted.users) > 1

----------------------------------------------------------------------------
(* Delete                                                                   *)

\* session s presses delete on record cid in this step
DeletePressed(s, cid) ==
    /\ last'.op = "delete" /\ last'.sess = s /\ last'.cid = cid
    /\ Delete(s, cid)

\* C17: a delete by a session whose role is not admin leaves crm_data.json
\* and the uploads directory as they were; a delete that succeeds is an
\* admin's, and afterwards the store holds neither the record nor the
\* uploads directory its document.
C17_DeleteAdminOnly ==
    [][\A s \in Sessions, cid \in CustomerIds :
          DeletePressed(s, cid)
          => /\ User(s).role # "admin"
                  => (dataFile' = dataFile /\ uploads' = uploads)
             /\ last'.msg = "deleted"
                  => /\ User(s).role = "admin"
                     /\ cid \notin DOMAIN Persisted'.customers
                     /\ db_local[s].customers[cid].document_path \notin uploads']_vars

\* an admin's delete has just removed a record whose document was stored
C17_AdminDeleted ==
    /\ last.op = "delete" /\ last.msg = "deleted"
    /\ session_user[last.sess] # None
    /\ User(last.sess).role = "admin"
    /\ last.cid \notin DOMAIN Persisted.customers
    /\ uploads = {}

----------------------------------------------------------------------------
(* Failing file operations                                                  *)

\* the environment starts or stops making a file operation fail
InjectFault(f) ==
    /\ f # fault
    /\ fault' = f
    /\ UNCHANGED <<dataFile, cache, now, pc, db_local, logged_in, session_user,
                   last, preempts, uploads>>

FaultNext ==
    \/ \E s \in Sessions : StartRun(s)
    \/ \E s \in Sessions : EndRun(s)
    \/ \E s \in Sessions, c \in LoginInputs : Login(s, c[1], c[2])
    \/ \E s \in Sessions : Logout(s)
    \/ \E s \in Sessions, u \in BranchUsernameInputs, p \in PasswordInputs,
          b \in BranchTextInputs : CreateBranchUser(s, u, p, b)
    \/ \E s \in Sessions, n \in NameInputs, ph \in PhoneInputs, a \in AadhaarInputs,
          e \in EmailInputs, f \in FileInputs : SubmitCustomer(s, n, ph, a, e, f)
    \/ \E s \in Sessions, cid \in CustomerIds : Delete(s, cid)
    \/ \E f \in Faults \cup {"none"} : InjectFault(f)

FaultSpec == Init /\ [][FaultNext]_vars

\* C18: when the removal of the record's document fails, the admin's delete
\* still removes the record from crm_data.json.
C18_DeleteDespiteDocument ==
    [][\A s \in Sessions, cid \in CustomerIds :
          (/\ fault = "remove_failed"
           /\ InDashboard(s) /\ User(s).role = "admin"
           /\ cid \in DOMAIN db_local[s].customers
           /\ db_local[s].customers[cid].document_path \in uploads
           /\ DeletePressed(s, cid))
          => cid \notin DOMAIN Persisted'.customers]_vars

\* C19: while saves fail (the open or the dump raises), what a load of
\* crm_data.json returns does not change.
C19_SaveAllOrNothing ==
    [][(fault \in {"open_failed", "write_failed"}) => (Persisted' = Persisted)]_vars

SuccessMsgs == ApprovedMsgs \cup {"created", "submitted", "deleted", "updated"}

\* C20: after a step whose save returned success, a load returns the
\* snapshot that was saved.
C20_LoadSeesSave ==
    [][\A s \in Sessions :
          (Acts(s) /\ last'.sess = s /\ last'.msg \in SuccessMsgs)
          => load_data(dataFile', cache').data = dataFile'.data]_vars

----------------------------------------------------------------------------
(* C21 .. C27: the store's contract, bootstrap, frames and invariants       *)

\* load_data would run its body on a data file that is cut off or that
\* cannot be read
BadStore ==
    /\ ~cache.valid
    /\ dataFile.state # "missing"
    /\ dataFile.state = "corrupt" \/ fault = "read_failed"

\* C21: load never fails.  A script run that starts on a backing store that
\* is corrupt or cannot be read gets the default snapshot from load_data,
\* shows the loading warning and goes on to render its page; it does not
\* end with an exception.
C21_LoadNeverFails ==
    [][\A s \in Sessions :
          (BadStore /\ StartRun(s)) =>
              /\ load_data(dataFile, cache).data = DefaultData
              /\ ~load_data(dataFile, cache).raised
              /\ pc'[s] = "loaded"
              /\ last' = Result(s, "load", 0, LOAD_WARNING, "-", FALSE)]_vars

\* a run started on a cut-off data file and showed the warning
C21_CorruptLoadWarned == last.op = "load" /\ last.msg = LOAD_WARNING

\* save_data(load_data()) applied to the store as it is, the save succeeding
RoundTrip ==
    LET l == load_data(dataFile, cache)
    IN  save_data(dataFile, l.cache, l.data, "ok")

\* C22: round trip.  In every state in which crm_data.json exists and
\* load_data returns, saving what load_data returned leaves the file with
\* the content it had.
C22_RoundTrip ==
    (dataFile.state # "missing" /\ ~load_data(dataFile, cache).raised)
        => RoundTrip.file = dataFile

\* the default admin account is in the snapshot, with role admin
HasAdmin(db) ==
    /\ DEFAULT_ADMIN \in DOMAIN db.users
    /\ db.users[DEFAULT_ADMIN].role = "admin"

\* C23: the default admin is created once.  From the moment crm_data.json
\* exists every persisted snapshot holds the default admin with role admin;
\* the module-level bootstrap of a later script run writes nothing; and
\* no step replaces or removes the persisted default-admin account.
C23_BootstrapOnce ==
    /\ [](dataFile.state # "missing" => HasAdmin(Persisted))
    /\ [][\A s \in Sessions :
             (dataFile.state # "missing" /\ StartRun(s)) => dataFile' = dataFile]_vars
    /\ [][HasAdmin(Persisted) =>
             /\ HasAdmin(Persisted')
             /\ Persisted'.users[DEFAULT_ADMIN] = Persisted.users[DEFAULT_ADMIN]]_vars

\* the clock over the longer range
FrameTick ==
    /\ now < MaxFrameClock
    /\ \A s \in Sessions : pc[s] # "loaded"
    /\ now' = now + 1
    /\ UNCHANGED <<dataFile, cache, pc, db_local, logged_in, session_user, last,
                   preempts, uploads, fault>>

FrameLoginInputs ==
    {<<DEFAULT_ADMIN, DEFAULT_ADMIN_PW>>, <<"A1", "secret1">>, <<"M1", "secret1">>,
     <<"B1", "secret1">>}

\* accounts of every role, submissions in two different seconds, approvals
FrameNext ==
    \/ \E s \in Sessions : StartRun(s)
    \/ \E s \in Sessions : EndRun(s)
    \/ FrameTick
    \/ \E s \in Sessions, c \in FrameLoginInputs : Login(s, c[1], c[2])
    \/ \E s \in Sessions : Logout(s)
    \/ \E s \in Sessions, u \in AgmUsernameInputs, p \in PasswordInputs :
          CreateAGM(s, u, p)
    \/ \E s \in Sessions, u \in AmUsernameInputs, p \in PasswordInputs,
          b \in BranchListInputs : CreateAreaManager(s, u, p, b)
    \/ \E s \in Sessions, p \in PasswordInputs, b \in BranchSelectInputs :
          CreateBranchUser(s, "B1", p, b)
    \/ \E s \in Sessions, n \in NameInputs, ph \in PhoneInputs, a \in AadhaarInputs,
          e \in EmailInputs, f \in FileInputs : SubmitCustomer(s, n, ph, a, e, f)
    \/ \E s \in Sessions, cid \in FrameCustomerIds : Approve(s, cid)

FrameSpec == Init /\ [][FrameNext]_vars

\* the step is session s pressing an approve button of record cid, and the
\* approval was saved
ApproveSucceeds(s, cid) ==
    /\ Approve(s, cid)
    /\ last'.msg \in ApprovedMsgs

\* C24: frame of approve.  The snapshot a successful approve saves differs
\* from the snapshot the script run loaded in the status of the targeted
\* record only: the accounts, the dashboard config, the set of records,
\* every other record and every other field of the targeted record are the
\* same.  (The model carries no updated_at stamp.)
C24_ApproveFrame ==
    [][\A s \in Sessions, cid \in FrameCustomerIds :
          ApproveSucceeds(s, cid) =>
              LET old == db_local[s]
                  new == Persisted'
              IN  /\ new.users = old.users
                  /\ new.dashboard = old.dashboard
                  /\ DOMAIN new.customers = DOMAIN old.customers
                  /\ \A k \in DOMAIN old.customers \ {cid} :
                         new.customers[k] = old.customers[k]
                  /\ DOMAIN new.customers[cid] = DOMAIN old.customers[cid]
                  /\ \A f \in DOMAIN old.customers[cid] \ {"status"} :
                         new.customers[cid][f] = old.customers[cid][f]
                  /\ new.customers[cid].status # old.customers[cid].status]_vars

\* an approval was saved while the store held a second record and the
\* accounts of all four roles
C24_ApprovedBesideOther ==
    /\ last.op = "approve"
    /\ last.msg \in ApprovedMsgs
    /\ Cardinality(DOMAIN Persisted.customers) = 2
    /\ Cardinality(DOMAIN Persisted.users) = 4

\* the buttons that write to the store
StoreOps ==
    {"create_agm", "create_am", "create_branch", "submit", "approve", "delete",
     "dashboard"}

\* C25: session invariant.  A session is logged in exactly when it holds a
\* user record; a handler of a create-account, submit, approve, delete or
\* dashboard-update button runs, and a session's step changes the persisted
\* snapshot, only in a logged-in session; and a session becomes logged in
\* only by a sign-in that was accepted, so after a logout none of these
\* happens before the next accepted sign-in.
C25_SessionInvariant ==
    /\ [](\A s \in Sessions : logged_in[s] <=> session_user[s] # None)
    /\ [][\A s \in Sessions :
             (Acts(s) /\ last' # last /\ last'.sess = s /\ last'.op \in StoreOps)
                 => (logged_in[s] /\ session_user[s] # None)]_vars
    /\ [][\A s \in Sessions :
             (Acts(s) /\ Persisted' # Persisted) => logged_in[s]]_vars
    /\ [][\A s \in Sessions :
             (~logged_in[s] /\ logged_in'[s])
                 => last' = Result(s, "login", 0, "Welcome", "-", FALSE)]_vars

\* a session has logged out of a store that it or others had written to
C25_LoggedOut ==
    /\ last.op = "logout"
    /\ ~logged_in[last.sess]
    /\ session_user[last.sess] = None
    /\ DOMAIN Persisted.users # {DEFAULT_ADMIN}

\* C26: the privileges of a session match the store.  In every reachable
\* state the username of each logged-in session is a key of the persisted
\* users map, and the role and the assigned branches the session holds are
\* those of the persisted account.
C26_SessionMatchesStore ==
    \A s \in Sessions :
        (logged_in[s] /\ session_user[s] # None) =>
            /\ User(s).username \in DOMAIN Persisted.users
            /\ Persisted.users[User(s).username].role = User(s).role
            /\ Persisted.users[User(s).username].assigned_branches
                   = User(s).assigned_branches

\* C27: records and documents refer to each other one to one.  In every
\* reachable state the document path of each persisted customer record is a
\* file in the uploads directory, and each file in the uploads directory is
\* the document path of exactly one persisted record.
C27_DocumentIntegrity ==
    /\ \A k \in DOMAIN Persisted.customers :
           Persisted.customers[k].document_path \in uploads
    /\ \A d \in uploads :
           Cardinality({k \in DOMAIN Persisted.customers :
                          Persisted.customers[k].document_path = d}) = 1

====
